---- MODULE Spec2Model ----
(***************************************************************************)
(* Model of the frame loop of src/main.cpp: Player, PowerUp, DamageWall    *)
(* and GameEngine::run / restartGame.                                      *)
(*                                                                         *)
(* Units.  Lengths are pixels (integers).  Times are half seconds, the     *)
(* largest unit in which the program's three durations (1.5 s, 2.5 s and   *)
(* 3.0 s) are whole numbers; a frame's elapsed time dt is a whole number   *)
(* of half seconds.  Rendering, audio and colours are left out: they read  *)
(* the game state and never write it.                                      *)
(***************************************************************************)
EXTENDS Integers, Sequences, FiniteSets, TLC

VARIABLES
    m_fontLoaded,           \* what m_font.openFromFile("arial.ttf") returned
    m_window,               \* m_window.isOpen()
    m_player,               \* *m_player: [x, y, lives, alive, timer]
    m_walls,                \* m_walls: sequence of rectangles
    m_powerUps,             \* m_powerUps: sequence of [x, y, collected, grants]
    m_damageWalls,          \* m_damageWalls: sequence of [x, y, size, hasHit,
                            \* damage]; damage is history: the damage events
                            \* this DamageWall has caused, counted up to 2
    m_powerUpSpawnTimer,    \* half seconds
    m_damageWallSpawnTimer, \* half seconds
    dt,                     \* the local dt of the running frame (0 outside the update block)
    pc,                     \* position of run() inside the frame
    idx,                    \* index of the running range-for loop
    moves,                  \* history: frames of this player in which it moved
    frameDamage,            \* history: times m_lives-- ran in the running frame
    sinceDamage,            \* history: half seconds Player::update was given since
                            \* this player's latest m_lives--, counted up to 1.5 s
    last                    \* history: the call just made, the state it started
                            \* from (player and sinceDamage) and the event it
                            \* handled

vars == <<m_fontLoaded, m_window, m_player, m_walls, m_powerUps, m_damageWalls,
          m_powerUpSpawnTimer, m_damageWallSpawnTimer, dt, pc, idx, moves,
          frameDamage, sinceDamage, last>>

----------------------------------------------------------------------------
(* Bounds of the model *)

MaxDt == 2          \* longest frame, in half seconds
MaxMoves == 2       \* frames with movement input per player instance
MaxLives == 2       \* lives a player collects at most

(* Inputs: the key combinations held during a frame *)
KeyStates == { {}, {"D"}, {"S"}, {"S", "D"}, {"A", "D"}, {"W", "S"} }

(* Inputs: the positions the random generator draws for a PowerUp
   (x in 50..750, y in 100..550).  (425, 415) overlaps the player both at
   (400, 400), which is clear of every wall, and at (420, 410), where the
   bottom wall leaves a player that ran into it. *)
PowerUpSpots == { <<425, 415>> }

(* Inputs: positions (x in 50..700, y in 100..500) and sizes (40..80) the
   random generator draws for a DamageWall.  (390, 390) with size 80
   contains the player at (400, 400). *)
DamageWallSpots == { <<390, 390, 80>> }

(* Inputs of the open-field specification: frames of 1 s and 1.5 s, a player
   that stands or runs down-right, a PowerUp at (300, 300) and a DamageWall
   either at (290, 290) with size 80 or far from the player's path at
   (600, 120) with size 40.  A player that ran from (50, 50) to (297, 297) in
   a 1 s frame overlaps that PowerUp and the first DamageWall and no wall,
   and no wall lies below it. *)
FieldFrames == { 2, 3 }
FieldKeyStates == { {}, {"S", "D"} }
FieldPowerUpSpots == { <<300, 300>> }
FieldDamageWallSpots == { <<290, 290, 80>>, <<600, 120, 40>> }

(* Inputs: the events pollEvent delivers *)
Events == {"Closed", "Enter", "Escape", "OtherKey", "Other"}

----------------------------------------------------------------------------
(* Program constants, times in half seconds *)

INVINCIBLE_DURATION == 3
POWER_UP_SPAWN_INTERVAL == 6
DAMAGE_WALL_SPAWN_INTERVAL == 5
m_speed == 175                  \* 350 px/s, per half second
PlayerSize == 40
PlayerStartX == 50
PlayerStartY == 50
PowerUpSize == 25
MaxPowerUps == 3
MaxDamageWalls == 4

----------------------------------------------------------------------------
(* Geometry *)

Min(a, b) == IF a < b THEN a ELSE b
Max(a, b) == IF a < b THEN b ELSE a

Rect(x, y, w, h) == [x |-> x, y |-> y, w |-> w, h |-> h]

NoRect == Rect(0, 0, 0, 0)

(* sf::Rect::findIntersection as handleCollision and the two checkCollision
   use it: the overlap rectangle of two rectangles of positive size, or
   NoRect (std::nullopt) when the overlap has no positive area *)
findIntersection(a, b) ==
    LET interLeft   == Max(a.x, b.x)
        interTop    == Max(a.y, b.y)
        interRight  == Min(a.x + a.w, b.x + b.w)
        interBottom == Min(a.y + a.h, b.y + b.h)
    IN  IF interLeft < interRight /\ interTop < interBottom
        THEN Rect(interLeft, interTop, interRight - interLeft, interBottom - interTop)
        ELSE NoRect

Intersects(a, b) == findIntersection(a, b) # NoRect

(* Player::getShape().getGlobalBounds() *)
PlayerBounds(p) == Rect(p.x, p.y, PlayerSize, PlayerSize)

(* PowerUp::m_shape.getGlobalBounds() *)
PowerUpBounds(u) == Rect(u.x, u.y, PowerUpSize, PowerUpSize)

(* DamageWall::getShape() *)
DamageWallShape(w) == Rect(w.x, w.y, w.size, w.size)

----------------------------------------------------------------------------
(* Player *)

NewPlayer == [x |-> PlayerStartX, y |-> PlayerStartY, lives |-> 0,
              alive |-> TRUE, timer |-> 0]

(* the direction the held keys give, per axis *)
DirX(keys) == (IF "D" \in keys THEN 1 ELSE 0) - (IF "A" \in keys THEN 1 ELSE 0)
DirY(keys) == (IF "S" \in keys THEN 1 ELSE 0) - (IF "W" \in keys THEN 1 ELSE 0)

(* (dir / len) * m_speed * dt on one axis: the full step on an axis move,
   the step divided by sqrt(2) (rounded toward zero) on a diagonal one *)
Step(d, diagonal, t) ==
    IF diagonal THEN d * ((m_speed * t * 7071) \div 10000) ELSE d * m_speed * t

(* Player::update counting the timer down without the test m_invincibleTimer > 0 *)
PlayerUpdate_AlwaysCounts(p, t, keys) ==
    IF ~p.alive THEN p
    ELSE LET q == [p EXCEPT !.timer = p.timer - t]
             dx == DirX(keys)
             dy == DirY(keys)
             diag == dx # 0 /\ dy # 0
         IN  IF dx # 0 \/ dy # 0
             THEN [q EXCEPT !.x = q.x + Step(dx, diag, t), !.y = q.y + Step(dy, diag, t)]
             ELSE q

(* Player::update *)
PlayerUpdate(p, t, keys) ==
    IF ~p.alive THEN p
    ELSE LET q == IF p.timer > 0 THEN [p EXCEPT !.timer = p.timer - t] ELSE p
             dx == DirX(keys)
             dy == DirY(keys)
             diag == dx # 0 /\ dy # 0
         IN  IF dx # 0 \/ dy # 0
             THEN [q EXCEPT !.x = q.x + Step(dx, diag, t), !.y = q.y + Step(dy, diag, t)]
             ELSE q

(* TakeDamage with an invincibility window one half second short *)
TakeDamage_ShortInvincibility(p) ==
    IF p.timer <= 0
    THEN LET l == p.lives - 1
         IN  [p EXCEPT !.lives = IF l <= 0 THEN 0 ELSE l,
                       !.timer = INVINCIBLE_DURATION - 1,
                       !.alive = IF l <= 0 THEN FALSE ELSE p.alive]
    ELSE p

(* TakeDamage without the clamp m_lives = 0 of line 269 *)
TakeDamage_NoClamp(p) ==
    IF p.timer <= 0
    THEN LET l == p.lives - 1
         IN  [p EXCEPT !.lives = l,
                       !.timer = INVINCIBLE_DURATION,
                       !.alive = IF l <= 0 THEN FALSE ELSE p.alive]
    ELSE p

(* TakeDamage without the invincibility test of line 257 *)
TakeDamage_NoInvincibility(p) ==
    LET l == p.lives - 1
    IN  [p EXCEPT !.lives = IF l <= 0 THEN 0 ELSE l,
                  !.timer = INVINCIBLE_DURATION,
                  !.alive = IF l <= 0 THEN FALSE ELSE p.alive]

(* TakeDamage with the death test of line 268 as m_lives < 0 *)
TakeDamage_DiesBelowZero(p) ==
    IF p.timer <= 0
    THEN LET l == p.lives - 1
         IN  [p EXCEPT !.lives = IF l < 0 THEN 0 ELSE l,
                       !.timer = INVINCIBLE_DURATION,
                       !.alive = IF l < 0 THEN FALSE ELSE p.alive]
    ELSE p

(* Player::handleCollision, the damage block *)
TakeDamage(p) ==
    IF p.timer <= 0
    THEN LET l == p.lives - 1
         IN  [p EXCEPT !.lives = IF l <= 0 THEN 0 ELSE l,
                       !.timer = INVINCIBLE_DURATION,
                       !.alive = IF l <= 0 THEN FALSE ELSE p.alive]
    ELSE p

(* Player::handleCollision, the push block *)
PushOut(p, inter, wall) ==
    IF inter.w < inter.h
    THEN [p EXCEPT !.x = p.x + (IF p.x < wall.x THEN -inter.w ELSE inter.w)]
    ELSE [p EXCEPT !.y = p.y + (IF p.y < wall.y THEN -inter.h ELSE inter.h)]

(* Player::handleCollision *)
handleCollision(p, wall) ==
    LET inter == findIntersection(PlayerBounds(p), wall)
    IN  IF inter # NoRect THEN PushOut(TakeDamage(p), inter, wall) ELSE p

(* the call that turned player p into q ran m_lives--: the life count fell,
   or the clamp of lines 268-271 put it back to 0 and ended the game *)
LostLife(p, q) == q.lives < p.lives \/ (p.alive /\ ~q.alive)

(* addLife that also brings the player back *)
addLife_Revives(p) == [p EXCEPT !.lives = p.lives + 1, !.alive = TRUE]

(* Player::addLife *)
addLife(p) == [p EXCEPT !.lives = p.lives + 1]

----------------------------------------------------------------------------
(* GameEngine *)

(* GameEngine::createWalls *)
createWalls == << Rect(350, 200, 150, 150), Rect(150, 350, 100, 80),
                  Rect(550, 350, 100, 80),  Rect(350, 450, 120, 60) >>

NoCall == [op |-> "none", pre |-> NewPlayer, obs |-> NoRect, ev |-> "none", since |-> 0]
Call(op, p, r) == [op |-> op, pre |-> p, obs |-> r, ev |-> "none", since |-> sinceDamage]
Handled(e, op, p) == [op |-> op, pre |-> p, obs |-> NoRect, ev |-> e, since |-> 0]

(* the constructor's font branch: m_uiText is created on both paths,
   m_gameOverText and m_instructionsText only when the font was loaded *)
UiTextCreated == TRUE
GameOverTextsCreated == m_fontLoaded

Init ==
    /\ frameDamage = 0
    /\ sinceDamage = INVINCIBLE_DURATION
    /\ m_fontLoaded \in BOOLEAN
    /\ m_window = TRUE
    /\ m_player = NewPlayer
    /\ m_walls = createWalls
    /\ m_powerUps = << >>
    /\ m_damageWalls = << >>
    /\ m_powerUpSpawnTimer = 0
    /\ m_damageWallSpawnTimer = 0
    /\ dt = 0
    /\ pc = "poll"
    /\ idx = 1
    /\ moves = 0
    /\ last = NoCall

(* restartGame that keeps the damage walls and their timer *)
restartGame_KeepsDamageWalls ==
    /\ m_player' = NewPlayer
    /\ m_powerUps' = << >>
    /\ m_powerUpSpawnTimer' = 0
    /\ moves' = 0
    /\ sinceDamage' = INVINCIBLE_DURATION
    /\ UNCHANGED <<m_damageWalls, m_damageWallSpawnTimer>>

(* GameEngine::restartGame *)
restartGame ==
    /\ m_player' = NewPlayer
    /\ m_powerUps' = << >>
    /\ m_damageWalls' = << >>
    /\ m_powerUpSpawnTimer' = 0
    /\ m_damageWallSpawnTimer' = 0
    /\ moves' = 0
    /\ sinceDamage' = INVINCIBLE_DURATION

NoRestart == UNCHANGED <<m_player, m_powerUps, m_damageWalls,
                         m_powerUpSpawnTimer, m_damageWallSpawnTimer, moves,
                         sinceDamage>>

(* an event loop that handles Enter and Escape without testing isAlive *)
PollEvent_NoAliveTest(e) ==
    /\ pc = "poll"
    /\ m_window
    /\ IF e = "Closed"
       THEN m_window' = FALSE /\ NoRestart /\ last' = Handled(e, "close", m_player)
       ELSE IF e = "Enter"
            THEN restartGame /\ UNCHANGED m_window
                 /\ last' = Handled(e, "restart", m_player)
            ELSE IF e = "Escape"
                 THEN m_window' = FALSE /\ NoRestart
                      /\ last' = Handled(e, "close", m_player)
                 ELSE UNCHANGED m_window /\ NoRestart
                      /\ last' = Handled(e, "none", m_player)
    /\ UNCHANGED <<m_walls, m_fontLoaded, dt, pc, idx, frameDamage>>

(* run(): the event loop takes one event off the queue *)
PollEvent(e) ==
    /\ pc = "poll"
    /\ m_window
    /\ IF e = "Closed"
       THEN m_window' = FALSE /\ NoRestart /\ last' = Handled(e, "close", m_player)
       ELSE IF e \in {"Enter", "Escape", "OtherKey"} /\ ~m_player.alive
            THEN IF e = "Enter"
                 THEN restartGame /\ UNCHANGED m_window
                      /\ last' = Handled(e, "restart", m_player)
                 ELSE IF e = "Escape"
                      THEN m_window' = FALSE /\ NoRestart
                           /\ last' = Handled(e, "close", m_player)
                      ELSE UNCHANGED m_window /\ NoRestart
                           /\ last' = Handled(e, "none", m_player)
            ELSE UNCHANGED m_window /\ NoRestart /\ last' = Handled(e, "none", m_player)
    /\ UNCHANGED <<m_walls, m_fontLoaded, dt, pc, idx, frameDamage>>

(* a frame that enters the update block without testing isAlive *)
EndPoll_NoAliveTest(t) ==
    /\ pc = "poll"
    /\ pc' = "update" /\ dt' = t
    /\ last' = NoCall
    /\ UNCHANGED <<m_fontLoaded, m_window, m_player, m_walls, m_powerUps, m_damageWalls,
                   m_powerUpSpawnTimer, m_damageWallSpawnTimer, idx, moves>>
    /\ UNCHANGED <<frameDamage, sinceDamage>>

(* run(): the event queue is empty (or the window closed); dt is read off the
   clock and the update block is entered if the player is alive *)
EndPoll(t) ==
    /\ pc = "poll"
    /\ IF m_player.alive
       THEN pc' = "update" /\ dt' = t
       ELSE pc' = "render" /\ dt' = 0
    /\ last' = NoCall
    /\ UNCHANGED <<m_fontLoaded, m_window, m_player, m_walls, m_powerUps, m_damageWalls,
                   m_powerUpSpawnTimer, m_damageWallSpawnTimer, idx, moves>>
    /\ UNCHANGED <<frameDamage, sinceDamage>>

(* run(): m_player->update(dt) *)
Update(keys) ==
    /\ pc = "update"
    /\ LET moving == DirX(keys) # 0 \/ DirY(keys) # 0
       IN  /\ moving => moves < MaxMoves
           /\ moves' = IF moving THEN moves + 1 ELSE moves
    /\ m_player' = PlayerUpdate(m_player, dt, keys)
    /\ last' = Call("update", m_player, NoRect)
    /\ pc' = "walls"
    /\ idx' = 1
    /\ UNCHANGED <<m_fontLoaded, m_window, m_walls, m_powerUps, m_damageWalls,
                   m_powerUpSpawnTimer, m_damageWallSpawnTimer, dt>>
    /\ sinceDamage' = Min(sinceDamage + dt, INVINCIBLE_DURATION)
    /\ UNCHANGED frameDamage

(* run(): one pass of the loop over m_walls *)
WallCollision ==
    /\ pc = "walls"
    /\ m_player' = handleCollision(m_player, m_walls[idx])
    /\ last' = Call("wall", m_player, m_walls[idx])
    /\ IF idx < Len(m_walls)
       THEN idx' = idx + 1 /\ pc' = pc
       ELSE idx' = 1 /\ pc' = IF m_powerUps = << >> THEN "purge" ELSE "powerUps"
    /\ UNCHANGED <<m_fontLoaded, m_window, m_walls, m_powerUps, m_damageWalls,
                   m_powerUpSpawnTimer, m_damageWallSpawnTimer, dt, moves>>
    /\ IF LostLife(m_player, m_player')
       THEN frameDamage' = frameDamage + 1 /\ sinceDamage' = 0
       ELSE UNCHANGED <<frameDamage, sinceDamage>>

(* PowerUp::checkCollision: the power-up after the call, and what it returns *)
PowerUpCheck(u, playerShape) ==
    IF Intersects(PowerUpBounds(u), playerShape)
    THEN [u EXCEPT !.collected = TRUE]
    ELSE u

PowerUpCheckResult(u, playerShape) == Intersects(PowerUpBounds(u), playerShape)

(* run(): one pass of the loop over m_powerUps *)
PowerUpCollision ==
    /\ pc = "powerUps"
    /\ LET u == m_powerUps[idx]
           hit == PowerUpCheckResult(u, PlayerBounds(m_player))
           v == PowerUpCheck(u, PlayerBounds(m_player))
       IN  /\ hit => m_player.lives < MaxLives
           /\ m_powerUps' = [m_powerUps EXCEPT ![idx] =
                                IF hit THEN [v EXCEPT !.grants = u.grants + 1] ELSE v]
           /\ m_player' = IF hit THEN addLife(m_player) ELSE m_player
           /\ last' = IF hit THEN Call("addLife", m_player, PowerUpBounds(u)) ELSE NoCall
    /\ IF idx < Len(m_powerUps)
       THEN idx' = idx + 1 /\ pc' = pc
       ELSE idx' = 1 /\ pc' = "purge"
    /\ UNCHANGED <<m_fontLoaded, m_window, m_walls, m_damageWalls,
                   m_powerUpSpawnTimer, m_damageWallSpawnTimer, dt, moves>>
    /\ UNCHANGED <<frameDamage, sinceDamage>>

(* an erase that removes nothing *)
RemoveCollected_Nothing(s) == s

(* std::remove_if + erase: the elements that are not collected, in order *)
RECURSIVE RemoveCollected(_)
RemoveCollected(s) ==
    IF s = << >> THEN << >>
    ELSE IF Head(s).collected THEN RemoveCollected(Tail(s))
         ELSE <<Head(s)>> \o RemoveCollected(Tail(s))

(* run(): m_powerUps.erase(remove_if(...)) *)
PurgePowerUps ==
    /\ pc = "purge"
    /\ m_powerUps' = RemoveCollected(m_powerUps)
    /\ pc' = "resetFlags"
    /\ last' = Call("purge", m_player, NoRect)
    /\ UNCHANGED <<m_fontLoaded, m_window, m_player, m_walls, m_damageWalls,
                   m_powerUpSpawnTimer, m_damageWallSpawnTimer, dt, idx, moves>>
    /\ UNCHANGED <<frameDamage, sinceDamage>>

(* a reset loop that leaves the flags as they are *)
ResetHitFlags_Nothing ==
    /\ pc = "resetFlags"
    /\ m_damageWalls' = m_damageWalls
    /\ pc' = IF m_damageWalls = << >> THEN "spawnPowerUp" ELSE "damageWalls"
    /\ idx' = 1
    /\ last' = Call(IF \E k \in DOMAIN m_damageWalls : m_damageWalls[k].hasHit
                    THEN "clearedHitFlag" ELSE "resetHitFlags", m_player, NoRect)
    /\ UNCHANGED <<m_fontLoaded, m_window, m_player, m_walls, m_powerUps,
                   m_powerUpSpawnTimer, m_damageWallSpawnTimer, dt, moves>>
    /\ UNCHANGED <<frameDamage, sinceDamage>>

(* run(): the loop calling DamageWall::resetHitFlag; the history names the
   reset "clearedHitFlag" when some flag was set before it *)
ResetHitFlags ==
    /\ pc = "resetFlags"
    /\ m_damageWalls' = [k \in DOMAIN m_damageWalls |->
                            [m_damageWalls[k] EXCEPT !.hasHit = FALSE]]
    /\ pc' = IF m_damageWalls = << >> THEN "spawnPowerUp" ELSE "damageWalls"
    /\ idx' = 1
    /\ last' = Call(IF \E k \in DOMAIN m_damageWalls : m_damageWalls[k].hasHit
                    THEN "clearedHitFlag" ELSE "resetHitFlags", m_player, NoRect)
    /\ UNCHANGED <<m_fontLoaded, m_window, m_player, m_walls, m_powerUps,
                   m_powerUpSpawnTimer, m_damageWallSpawnTimer, dt, moves>>
    /\ UNCHANGED <<frameDamage, sinceDamage>>

(* DamageWall::checkCollision: what it returns, and the wall after the call *)
DamageWallCheckResult(w, playerShape) ==
    Intersects(DamageWallShape(w), playerShape) /\ ~w.hasHit

DamageWallCheck(w, playerShape) ==
    IF DamageWallCheckResult(w, playerShape) THEN [w EXCEPT !.hasHit = TRUE] ELSE w

(* a damage-wall loop that erases a DamageWall once it hit the player *)
DamageWallCollision_RemovesOnHit ==
    /\ pc = "damageWalls"
    /\ LET w == m_damageWalls[idx]
           hit == DamageWallCheckResult(w, PlayerBounds(m_player))
           rest == IF hit
                   THEN SubSeq(m_damageWalls, 1, idx - 1)
                        \o SubSeq(m_damageWalls, idx + 1, Len(m_damageWalls))
                   ELSE m_damageWalls
           next == IF hit THEN idx ELSE idx + 1
       IN  /\ m_damageWalls' = rest
           /\ m_player' = IF hit THEN handleCollision(m_player, DamageWallShape(w))
                          ELSE m_player
           /\ last' = IF hit THEN Call("damageWall", m_player, DamageWallShape(w))
                      ELSE NoCall
           /\ IF next <= Len(rest)
              THEN idx' = next /\ pc' = pc
              ELSE idx' = 1 /\ pc' = "spawnPowerUp"
    /\ UNCHANGED <<m_fontLoaded, m_window, m_walls, m_powerUps,
                   m_powerUpSpawnTimer, m_damageWallSpawnTimer, dt, moves>>
    /\ IF LostLife(m_player, m_player')
       THEN frameDamage' = frameDamage + 1 /\ sinceDamage' = 0
       ELSE UNCHANGED <<frameDamage, sinceDamage>>

(* run(): one pass of the loop over m_damageWalls *)
DamageWallCollision ==
    /\ pc = "damageWalls"
    /\ LET w == m_damageWalls[idx]
           hit == DamageWallCheckResult(w, PlayerBounds(m_player))
           v == DamageWallCheck(w, PlayerBounds(m_player))
       IN  /\ m_damageWalls' = [m_damageWalls EXCEPT ![idx] =
                                   IF hit /\ m_player.timer <= 0
                                   THEN [v EXCEPT !.damage = Min(w.damage + 1, 2)]
                                   ELSE v]
           /\ m_player' = IF hit THEN handleCollision(m_player, DamageWallShape(w))
                          ELSE m_player
           /\ last' = IF hit THEN Call("damageWall", m_player, DamageWallShape(w))
                      ELSE NoCall
    /\ IF idx < Len(m_damageWalls)
       THEN idx' = idx + 1 /\ pc' = pc
       ELSE idx' = 1 /\ pc' = "spawnPowerUp"
    /\ UNCHANGED <<m_fontLoaded, m_window, m_walls, m_powerUps,
                   m_powerUpSpawnTimer, m_damageWallSpawnTimer, dt, moves>>
    /\ IF LostLife(m_player, m_player')
       THEN frameDamage' = frameDamage + 1 /\ sinceDamage' = 0
       ELSE UNCHANGED <<frameDamage, sinceDamage>>

(* a power-up spawn block that resets its timer only when it spawns and
   holds it at the threshold while the cap blocks the spawn *)
SpawnPowerUpStep_ResetOnSpawnOnly(pos) ==
    /\ pc = "spawnPowerUp"
    /\ LET t == m_powerUpSpawnTimer + dt
       IN  IF t >= POWER_UP_SPAWN_INTERVAL /\ Len(m_powerUps) < MaxPowerUps
           THEN /\ m_powerUps' = Append(m_powerUps,
                                        [x |-> pos[1], y |-> pos[2],
                                         collected |-> FALSE, grants |-> 0])
                /\ m_powerUpSpawnTimer' = 0
                /\ last' = Call("spawnPowerUp", m_player, NoRect)
           ELSE /\ m_powerUps' = m_powerUps
                /\ m_powerUpSpawnTimer' = Min(t, POWER_UP_SPAWN_INTERVAL)
                /\ last' = IF t >= POWER_UP_SPAWN_INTERVAL
                           THEN Call("powerUpCap", m_player, NoRect) ELSE NoCall
    /\ pc' = "spawnDamageWall"
    /\ UNCHANGED <<m_fontLoaded, m_window, m_player, m_walls, m_damageWalls,
                   m_damageWallSpawnTimer, dt, idx, moves>>
    /\ UNCHANGED <<frameDamage, sinceDamage>>

(* the cap tests written with <= *)
PowerUpRoom_OffByOne == Len(m_powerUps) <= MaxPowerUps
DamageWallRoom_OffByOne == Len(m_damageWalls) <= MaxDamageWalls

(* the cap tests of the two spawn blocks *)
PowerUpRoom == Len(m_powerUps) < MaxPowerUps
DamageWallRoom == Len(m_damageWalls) < MaxDamageWalls

(* run(): the power-up spawn block; pos is what spawnPowerUp draws *)
SpawnPowerUpStep(pos) ==
    /\ pc = "spawnPowerUp"
    /\ LET t == m_powerUpSpawnTimer + dt
       IN  IF t >= POWER_UP_SPAWN_INTERVAL
           THEN /\ m_powerUps' = IF PowerUpRoom
                                 THEN Append(m_powerUps,
                                             [x |-> pos[1], y |-> pos[2],
                                              collected |-> FALSE, grants |-> 0])
                                 ELSE m_powerUps
                /\ m_powerUpSpawnTimer' = 0
                /\ last' = Call(IF PowerUpRoom THEN "spawnPowerUp" ELSE "powerUpCap",
                                m_player, NoRect)
           ELSE /\ m_powerUps' = m_powerUps
                /\ m_powerUpSpawnTimer' = t
                /\ last' = NoCall
    /\ pc' = "spawnDamageWall"
    /\ UNCHANGED <<m_fontLoaded, m_window, m_player, m_walls, m_damageWalls,
                   m_damageWallSpawnTimer, dt, idx, moves>>
    /\ UNCHANGED <<frameDamage, sinceDamage>>

(* run(): the damage-wall spawn block; spot is what spawnDamageWall and the
   DamageWall constructor draw *)
SpawnDamageWallStep(spot) ==
    /\ pc = "spawnDamageWall"
    /\ LET t == m_damageWallSpawnTimer + dt
       IN  IF t >= DAMAGE_WALL_SPAWN_INTERVAL
           THEN /\ m_damageWalls' = IF DamageWallRoom
                                    THEN Append(m_damageWalls,
                                                [x |-> spot[1], y |-> spot[2],
                                                 size |-> spot[3], hasHit |-> FALSE,
                                                 damage |-> 0])
                                    ELSE m_damageWalls
                /\ m_damageWallSpawnTimer' = 0
                /\ last' = Call(IF DamageWallRoom THEN "spawnDamageWall"
                                ELSE "damageWallCap", m_player, NoRect)
           ELSE /\ m_damageWalls' = m_damageWalls
                /\ m_damageWallSpawnTimer' = t
                /\ last' = NoCall
    /\ pc' = "render"
    /\ UNCHANGED <<m_fontLoaded, m_window, m_player, m_walls, m_powerUps,
                   m_powerUpSpawnTimer, dt, idx, moves>>
    /\ UNCHANGED <<frameDamage, sinceDamage>>

(* a frame end that does not test m_window.isOpen() *)
Render_IgnoresClose ==
    /\ pc = "render"
    /\ pc' = "poll"
    /\ last' = NoCall
    /\ dt' = 0
    /\ UNCHANGED <<m_fontLoaded, m_window, m_player, m_walls, m_powerUps, m_damageWalls,
                   m_powerUpSpawnTimer, m_damageWallSpawnTimer, idx, moves>>
    /\ frameDamage' = 0
    /\ UNCHANGED sinceDamage

(* run(): the frame is drawn and the loop condition m_window.isOpen() is
   tested.  For a Dead player drawGameOverScreen dereferences m_gameOverText
   and m_instructionsText; when they were never created that is undefined
   behaviour, which either ends the process or lets the loop go on. *)
Render ==
    /\ pc = "render"
    /\ IF ~m_player.alive /\ ~GameOverTextsCreated
       THEN /\ pc' \in {"crashed", IF m_window THEN "poll" ELSE "done"}
            /\ last' = Call("nullDeref", m_player, NoRect)
       ELSE /\ pc' = IF m_window THEN "poll" ELSE "done"
            /\ last' = NoCall
    /\ dt' = 0
    /\ UNCHANGED <<m_fontLoaded, m_window, m_player, m_walls, m_powerUps, m_damageWalls,
                   m_powerUpSpawnTimer, m_damageWallSpawnTimer, idx, moves>>
    /\ frameDamage' = 0
    /\ UNCHANGED sinceDamage

Next ==
    \/ \E e \in Events : PollEvent(e)
    \/ \E t \in 1..MaxDt : EndPoll(t)
    \/ \E keys \in KeyStates : Update(keys)
    \/ WallCollision
    \/ PowerUpCollision
    \/ PurgePowerUps
    \/ ResetHitFlags
    \/ DamageWallCollision
    \/ \E pos \in PowerUpSpots : SpawnPowerUpStep(pos)
    \/ \E spot \in DamageWallSpots : SpawnDamageWallStep(spot)
    \/ Render

Spec == Init /\ [][Next]_vars

(* the same program on the open-field inputs, with the font found *)
InitField == Init /\ m_fontLoaded

NextField ==
    \/ \E e \in Events : PollEvent(e)
    \/ \E t \in FieldFrames : EndPoll(t)
    \/ \E keys \in FieldKeyStates : Update(keys)
    \/ WallCollision
    \/ PowerUpCollision
    \/ PurgePowerUps
    \/ ResetHitFlags
    \/ DamageWallCollision
    \/ \E pos \in FieldPowerUpSpots : SpawnPowerUpStep(pos)
    \/ \E spot \in FieldDamageWallSpots : SpawnDamageWallStep(spot)
    \/ Render

SpecField == InitField /\ [][NextField]_vars

----------------------------------------------------------------------------
(* Properties *)

(* the call just made was handleCollision on an obstacle the player overlapped *)
Resolved == /\ last.op \in {"wall", "damageWall"}
            /\ Intersects(PlayerBounds(last.pre), last.obs)

(* C1: whenever the player is Dead its life count is 0, in every state of
   every frame, the rest of the frame of the fatal hit included.
   The code breaks it: the power-up loop of the fatal frame still adds a life. *)
C1_DeadHasNoLives == ~m_player.alive => m_player.lives = 0

(* C2: when handleCollision returns from an obstacle the player overlapped,
   the player no longer overlaps that obstacle.
   The code breaks it for a player lying inside the obstacle on the push axis. *)
C2_PushClearsObstacle ==
    Resolved => ~Intersects(PlayerBounds(m_player), last.obs)

(* C3: the DamageWall collision step leaves the player's position unchanged.
   The code breaks it: a DamageWall hit runs the same push as a Wall. *)
C3_DamageWallLeavesPosition ==
    last.op = "damageWall" => m_player.x = last.pre.x /\ m_player.y = last.pre.y

(* C4: the life count is never below 0 after any update, handleCollision or
   addLife call, a hit taken at 0 lives included. *)
C4_LivesNeverNegative == m_player.lives >= 0

C4_Witness == /\ Resolved
              /\ last.pre.lives = 0
              /\ last.pre.timer <= 0
              /\ m_player.lives = 0

(* C5: handleCollision on an overlapping obstacle while the invincibility
   timer is > 0 leaves lives, the alive flag and the timer as they were and
   still pushes the player. *)
C5_InvincibleHitOnlyPushes ==
    (Resolved /\ last.pre.timer > 0) =>
        /\ m_player.lives = last.pre.lives
        /\ m_player.alive = last.pre.alive
        /\ m_player.timer = last.pre.timer
        /\ <<m_player.x, m_player.y>> # <<last.pre.x, last.pre.y>>

C5_Witness == /\ Resolved
              /\ last.pre.timer > 0
              /\ last.pre.alive
              /\ last.pre.lives > 0

(* C6: handleCollision on an overlapping obstacle while the invincibility
   timer is <= 0 makes lives max(lives - 1, 0), sets the timer to 1.5 s
   (3 half seconds), and leaves the player Dead exactly when the resulting
   life count is 0. *)
C6_HitTakesOneLife ==
    (Resolved /\ last.pre.timer <= 0) =>
        /\ m_player.lives = Max(last.pre.lives - 1, 0)
        /\ m_player.timer = 3
        /\ (~m_player.alive) = (m_player.lives = 0)

C6_Witness == /\ Resolved
              /\ last.pre.timer <= 0
              /\ last.pre.lives >= 2
              /\ m_player.alive

(* the grant count and the collected flag of every active PowerUp *)
C7_GrantsOnceFormula ==
    /\ \A k \in DOMAIN m_powerUps :
          /\ m_powerUps[k].grants <= 1
          /\ m_powerUps[k].collected = (m_powerUps[k].grants = 1)
    /\ pc \notin {"powerUps", "purge"} =>
          \A k \in DOMAIN m_powerUps : ~m_powerUps[k].collected

(* a step of the collection loop never clears a collected flag *)
C7_FlagStays ==
    pc = "powerUps" =>
        \A k \in DOMAIN m_powerUps :
            m_powerUps[k].collected => m_powerUps'[k].collected

(* C7: a PowerUp grants its life at most once: a PowerUp is collected exactly
   when it has granted one life, a collected flag never returns to false, and
   outside the collection loop and the purge that follows it (so at the end
   of every frame) the active set holds no collected PowerUp. *)
C7_PowerUpGrantsOnce == []C7_GrantsOnceFormula /\ [][C7_FlagStays]_vars

C7_Witness == /\ last.op = "purge"
              /\ m_player.lives >= 1
              /\ m_player.alive
              /\ Len(m_powerUps) = 0
              /\ m_powerUpSpawnTimer > 0

(* C8: the active PowerUp count is at most 3 and the DamageWall count at
   most 4, in every reachable state. *)
C8_PopulationCaps == Len(m_powerUps) <= 3 /\ Len(m_damageWalls) <= 4

C8_Witness == /\ last.op = "damageWallCap"
              /\ Len(m_damageWalls) = 4
              /\ Len(m_powerUps) = 3
              /\ m_powerUpSpawnTimer = 0

(* what a step that runs restartGame leaves behind *)
C9_RestartStep ==
    last'.op = "restart" =>
        /\ m_player'.alive
        /\ m_player'.lives = 0
        /\ m_player'.timer = 0
        /\ m_player'.x = 50 /\ m_player'.y = 50
        /\ m_powerUps' = << >>
        /\ m_damageWalls' = << >>
        /\ m_powerUpSpawnTimer' = 0
        /\ m_damageWallSpawnTimer' = 0
        /\ Len(m_walls') = 4
        /\ m_walls' = m_walls

(* C9: right after a restart the player is Alive with 0 lives, timer 0 and
   position (50, 50), both collections are empty, both spawn timers are 0
   and the four walls are the ones from before the restart. *)
C9_RestartResets == [][C9_RestartStep]_vars

C9_Witness == /\ last.op = "restart"
              /\ ~last.pre.alive
              /\ last.pre.lives = 1
              /\ last.pre.x # 50
              /\ m_player.alive

(* C10: a Dead player becomes Alive only by an Enter key-press processed
   while it is Dead. *)
C10_DeadUntilRestart ==
    [][(~m_player.alive /\ m_player'.alive) =>
          (pc = "poll" /\ last'.op = "restart")]_vars

C10_Witness == /\ ~m_player.alive
               /\ pc = "render"
               /\ dt = 0
               /\ m_player.lives = 1

(* the game state the frame's update block works on *)
GameState == <<m_player, m_powerUps, m_damageWalls,
               m_powerUpSpawnTimer, m_damageWallSpawnTimer>>

(* C11 as stated: once a close request has been processed no step changes the
   game state any more.  The code breaks it for a Closed event taken while the
   player is Alive: the update block of that frame still runs. *)
C11_CloseStopsUpdates == [][~m_window => UNCHANGED GameState]_vars

(* what a step taken after the window was closed may do *)
C11_AfterCloseStep ==
    ~m_window =>
        /\ ~m_window'
        /\ pc' # "poll"
        /\ last'.ev = "none" /\ last'.op # "restart"
        /\ (pc = "poll" /\ ~m_player.alive) =>
               (pc' = "render" /\ UNCHANGED GameState)
        /\ pc = "render" => UNCHANGED GameState

(* C11: once a close request has been processed no further event is processed
   and no new frame begins, the window stays closed; a frame whose request
   was processed with the player Dead skips the update block and changes no
   game state, and drawing never changes game state; the update block of the
   current frame still runs when the player is Alive. *)
C11_CloseEndsLoopAfterFrame == [][C11_AfterCloseStep]_vars

C11_Witness == /\ ~m_window
               /\ last.op = "update"
               /\ m_player # last.pre
               /\ m_player.alive

(* C12: with the font not loaded, every text object the loop draws was
   created: no null text object is dereferenced and the loop is never ended
   by one, the game-over screen of a Dead player included.
   The code breaks it: drawGameOverScreen draws *m_gameOverText and
   *m_instructionsText, which the constructor creates only with a font. *)
C12_FontFailureHarmless ==
    ~m_fontLoaded => (UiTextCreated /\ last.op # "nullDeref" /\ pc # "crashed")

(* C13 as stated: when a frame starts, every DamageWall's hit flag is false.
   The code resets the flags inside the update block, not at the frame start:
   the flag of a DamageWall that hit the player is still set when the next
   frame starts, and stays set through Dead frames. *)
C13_FlagsClearAtFrameStart ==
    pc = "poll" => \A k \in DOMAIN m_damageWalls : ~m_damageWalls[k].hasHit

(* C13: when the DamageWall checks of an Alive frame begin, and before each
   DamageWall's own check, its hit flag is false, whatever value it had at
   the end of the previous frame. *)
C13_FlagsClearBeforeChecks ==
    pc = "damageWalls" =>
        \A k \in idx..Len(m_damageWalls) : ~m_damageWalls[k].hasHit

C13_Witness == /\ pc = "damageWalls"
               /\ idx = 1
               /\ last.op = "clearedHitFlag"
               /\ Len(m_damageWalls) >= 1

(* C14 as stated: the invincibility timer is >= 0 in every reachable state.
   The code subtracts the whole frame duration from a positive timer and
   does not clamp the result. *)
C14_TimerNeverNegative == m_player.timer >= 0

(* C14: the invincibility timer is at most 1.5 s (3 half seconds); update
   subtracts the frame duration from it exactly when it is > 0 and leaves it
   alone otherwise, so it can end below 0, by less than one frame duration,
   and does not fall further from there. *)
C14_TimerCountsDownPastZero ==
    /\ m_player.timer <= 3
    /\ m_player.timer > -MaxDt
    /\ last.op = "update" =>
           m_player.timer = IF last.pre.timer > 0 THEN last.pre.timer - dt
                            ELSE last.pre.timer

C14_Witness == /\ last.op = "update"
               /\ last.pre.timer > 0
               /\ m_player.timer < 0

(* a step that processes Enter or Escape for an Alive player *)
C15_KeyWhileAliveStep ==
    (pc = "poll" /\ m_player.alive /\ last'.ev \in {"Enter", "Escape"}) =>
        /\ last'.op = "none"
        /\ m_window' = m_window
        /\ UNCHANGED GameState
        /\ pc' = "poll"

(* C15: while the player is Alive, processing an Enter or Escape key-press
   restarts nothing and closes nothing, and leaves the player, both
   collections and both spawn timers unchanged. *)
C15_KeysIgnoredWhileAlive == [][C15_KeyWhileAliveStep]_vars

C15_Witness == /\ last.ev = "Escape"
               /\ last.op = "none"
               /\ m_player.alive
               /\ m_window
               /\ Len(m_damageWalls) > 0
               /\ m_player.lives > 0

(* a DamageWall check made while the player overlaps the DamageWall and is
   not invincible takes a life and restarts the invincibility timer *)
C16_CheckStep ==
    (/\ pc = "damageWalls"
     /\ Intersects(DamageWallShape(m_damageWalls[idx]), PlayerBounds(m_player))
     /\ m_player.timer <= 0) =>
        /\ m_player'.lives = Max(m_player.lives - 1, 0)
        /\ m_player'.timer = 3
        /\ m_player'.alive = (m_player'.lives > 0)
        /\ m_damageWalls'[idx].hasHit

(* C16: in an Alive frame, every DamageWall check at which the player overlaps
   the DamageWall with the invincibility timer <= 0 costs the player a life
   (at 0 lives, its life), also when that DamageWall damaged the player in
   an earlier frame. *)
C16_DamageWallHitsAgain == [][C16_CheckStep]_vars

C16_Witness == /\ last.op = "damageWall"
               /\ last.pre.timer <= 0
               /\ m_player.lives = last.pre.lives - 1
               /\ \E k \in DOMAIN m_damageWalls :
                     /\ m_damageWalls[k].damage = 2
                     /\ m_damageWalls[k].hasHit
                     /\ DamageWallShape(m_damageWalls[k]) = last.obs

(* the power-up spawn block of a frame *)
C17_PowerUpStep ==
    pc = "spawnPowerUp" =>
        LET t == m_powerUpSpawnTimer + dt
        IN  IF t >= 6
            THEN /\ m_powerUpSpawnTimer' = 0
                 /\ Len(m_powerUps') = Len(m_powerUps) + (IF Len(m_powerUps) < 3 THEN 1 ELSE 0)
                 /\ SubSeq(m_powerUps', 1, Len(m_powerUps)) = m_powerUps
            ELSE /\ m_powerUpSpawnTimer' = t
                 /\ m_powerUps' = m_powerUps

(* the damage-wall spawn block of a frame *)
C17_DamageWallStep ==
    pc = "spawnDamageWall" =>
        LET t == m_damageWallSpawnTimer + dt
        IN  IF t >= 5
            THEN /\ m_damageWallSpawnTimer' = 0
                 /\ Len(m_damageWalls') =
                        Len(m_damageWalls) + (IF Len(m_damageWalls) < 4 THEN 1 ELSE 0)
                 /\ SubSeq(m_damageWalls', 1, Len(m_damageWalls)) = m_damageWalls
            ELSE /\ m_damageWallSpawnTimer' = t
                 /\ m_damageWalls' = m_damageWalls

(* outside its spawn block a collection does not grow and, but for a restart,
   a spawn timer does not change; a frame runs each spawn block once, with
   the frame's dt > 0 *)
C17_ElsewhereStep ==
    /\ pc # "spawnPowerUp" =>
          /\ Len(m_powerUps') <= Len(m_powerUps)
          /\ last'.op # "restart" => m_powerUpSpawnTimer' = m_powerUpSpawnTimer
    /\ pc # "spawnDamageWall" =>
          /\ Len(m_damageWalls') <= Len(m_damageWalls)
          /\ last'.op # "restart" => m_damageWallSpawnTimer' = m_damageWallSpawnTimer
    /\ pc = "spawnPowerUp" => (pc' = "spawnDamageWall" /\ dt > 0)
    /\ pc = "spawnDamageWall" => (pc' = "render" /\ dt > 0)
    /\ pc' = "spawnPowerUp" => pc \in {"resetFlags", "damageWalls"}

(* C17: in every Alive frame each spawn timer is advanced by the elapsed
   time; a power-up timer then >= 3.0 s (6 half seconds) is reset to 0 and
   one PowerUp is added exactly when fewer than 3 are active, otherwise
   nothing is spawned and the timer keeps the accumulated value; the same for
   the DamageWall timer with 2.5 s (5) and cap 4; at most one entity of each
   kind is added per frame. *)
C17_SpawnTimers ==
    [][C17_PowerUpStep /\ C17_DamageWallStep /\ C17_ElsewhereStep]_vars

C17_Witness == /\ last.op = "damageWallCap"
               /\ m_damageWallSpawnTimer = 0
               /\ m_powerUpSpawnTimer > 0
               /\ Len(m_powerUps) = 3
               /\ dt = 2

(* C18: an overlapping handleCollision call moves the player along one axis
   by the overlap extent on that axis: horizontally when the overlap is
   narrower than high, vertically otherwise; left or up when the player's
   center is left of or above the obstacle's center, right or down otherwise.
   The code breaks it: it picks the direction by comparing the top-left
   corners, not the centers (twice a center is written to stay in integers). *)
C18_PushTowardCenterSide ==
    Resolved =>
        LET inter == findIntersection(PlayerBounds(last.pre), last.obs)
            centerLeft == 2 * last.pre.x + PlayerSize < 2 * last.obs.x + last.obs.w
            centerAbove == 2 * last.pre.y + PlayerSize < 2 * last.obs.y + last.obs.h
        IN  IF inter.w < inter.h
            THEN /\ m_player.x = last.pre.x + (IF centerLeft THEN -inter.w ELSE inter.w)
                 /\ m_player.y = last.pre.y
            ELSE /\ m_player.y = last.pre.y + (IF centerAbove THEN -inter.h ELSE inter.h)
                 /\ m_player.x = last.pre.x

(* a step of a frame that began with the player Dead and runs no restart:
   such a frame is at its event loop or at its drawing *)
C19_DeadFrameStep ==
    /\ (pc = "poll" /\ ~m_player.alive /\ last'.op # "restart") =>
          (pc' \in {"poll", "render"} /\ UNCHANGED GameState)
    /\ (pc = "render" /\ ~m_player.alive) =>
          (pc' \in {"poll", "done", "crashed"} /\ UNCHANGED GameState)

(* C19: a frame that begins with the player Dead and processes no restart
   changes neither the player's position, lives and timer nor the PowerUp and
   DamageWall collections, the hit flags or the spawn timers. *)
C19_DeadFrameFrozen == [][C19_DeadFrameStep]_vars

C19_Witness == /\ ~m_player.alive
               /\ pc = "render"
               /\ dt = 0
               /\ m_window
               /\ m_powerUpSpawnTimer > 0
               /\ \E k \in DOMAIN m_damageWalls : m_damageWalls[k].hasHit

(* a step that runs no restart keeps every DamageWall, in its place in the
   collection and with its rectangle; a restart empties the collection *)
C20_KeepsDamageWallsStep ==
    IF last'.op = "restart"
    THEN m_damageWalls' = << >>
    ELSE /\ Len(m_damageWalls') >= Len(m_damageWalls)
         /\ \A k \in DOMAIN m_damageWalls :
               DamageWallShape(m_damageWalls'[k]) = DamageWallShape(m_damageWalls[k])

(* C20: between two restarts the DamageWalls only grow in number: every
   DamageWall stays, with the same rectangle, whether or not it has hit the
   player, until a restart empties the collection. *)
C20_DamageWallsPersist == [][C20_KeepsDamageWallsStep]_vars

C20_Witness == /\ pc = "damageWalls"
               /\ m_player.alive
               /\ \E k \in DOMAIN m_damageWalls :
                     /\ m_damageWalls[k].damage >= 1
                     /\ ~m_damageWalls[k].hasHit

(* C21: within one frame the life count is decremented at most once, however
   many Walls and DamageWalls the player overlaps: the first damaging hit
   sets the invincibility timer, and no later check of the frame finds it
   <= 0. *)
C21_OneLifePerFrame ==
    /\ frameDamage <= 1
    /\ (frameDamage = 1 /\ dt > 0) => m_player.timer = 3

C21_Witness == /\ frameDamage = 1
               /\ Resolved
               /\ last.op = "damageWall"
               /\ last.pre.timer = 3
               /\ last.pre.lives = 1
               /\ m_player.lives = 1
               /\ m_player.alive

(* C22: two consecutive life losses of one player are separated by player
   updates whose elapsed times sum to at least 1.5 s (3 half seconds): a
   call that takes a life finds at least that much counted since the
   previous loss, and until then the invincibility timer is > 0. *)
C22_LossesApart ==
    /\ (Resolved /\ LostLife(last.pre, m_player)) => last.since >= 3
    /\ sinceDamage < 3 => m_player.timer > 0

C22_Witness == /\ Resolved
               /\ last.op = "damageWall"
               /\ LostLife(last.pre, m_player)
               /\ last.pre.lives = 1
               /\ last.pre.timer <= 0
               /\ last.since = 3
               /\ sinceDamage = 0
               /\ \E k \in DOMAIN m_damageWalls : m_damageWalls[k].damage = 2

====
